---- MODULE Spec2Model ----
(***************************************************************************)
(* Model of the model-swap lifecycle of the WEBCOSMIC planet viewer.       *)
(*                                                                         *)
(*   Spec         src/src/components/PlanetViewer.jsx (load-id controller) *)
(*   SpecPart000  src/unnamed/part_000  (component variant, no load id)    *)
(*   SpecPart001  src/unnamed/part_001  (vanilla script, no load id)       *)
(*   SpecLive     Spec with every in-flight load eventually resolving      *)
(*   SpecDispose  disposeObject3D applied to bounded node trees            *)
(*   SpecFit      centerAndFit applied to bounded bounding boxes           *)
(*                                                                         *)
(* All callbacks run to completion on one event loop, so every handler is  *)
(* one atomic action.  A planet node (gltf.scene) is identified by the     *)
(* ordinal of the loader.load call that produced it: the loader builds a   *)
(* fresh scene graph for every call.  The two lights added to the scene at *)
(* setup are never removed and are left out of sceneChildren, which holds  *)
(* the planet nodes only.                                                  *)
(***************************************************************************)
EXTENDS Integers, FiniteSets, Sequences, TLC

\* Bound on the number of loader.load invocations explored.
MaxLoads == 3

NoNode == 0

Nodes == 1..MaxLoads

PLANETS ==
  << [name |-> "Earth",   file |-> "/models/earth.glb"],
     [name |-> "Moon",    file |-> "/models/moon.glb"],
     [name |-> "Mars",    file |-> "/models/mars.glb"],
     [name |-> "Venus",   file |-> "/models/venus.glb"],
     [name |-> "Saturn",  file |-> "/models/saturn.glb"],
     [name |-> "Jupiter", file |-> "/models/jupiter.glb"],
     [name |-> "Sun",     file |-> "/models/sun.glb"] >>

\* data-planet values of the buttons that are clicked: a lower-case match,
\* an upper-case match, a value naming no catalog entry, a missing value.
DataPlanets == {"earth", "MARS", "pluto", ""}

\* String.prototype.toLowerCase on the strings that occur in the model.
ToLowerCase(s) ==
  CASE s = "Earth"   -> "earth"
    [] s = "Moon"    -> "moon"
    [] s = "Mars"    -> "mars"
    [] s = "MARS"    -> "mars"
    [] s = "Venus"   -> "venus"
    [] s = "Saturn"  -> "saturn"
    [] s = "Jupiter" -> "jupiter"
    [] s = "Sun"     -> "sun"
    [] OTHER         -> s

\* A click that names no catalog entry falls back to the first entry.
FindPlanetOrFirst(planet) ==
  LET hits == {i \in 1..Len(PLANETS) :
                 ToLowerCase(PLANETS[i].name) = ToLowerCase(planet)}
  IN  IF hits = {} THEN 1
      ELSE CHOOSE i \in hits : \A j \in hits : i <= j

\* PLANETS.find(p => p.name.toLowerCase() === planet.toLowerCase()):
\* index of the first matching entry, 0 when find returns undefined.
FindPlanet(planet) ==
  LET hits == {i \in 1..Len(PLANETS) :
                 ToLowerCase(PLANETS[i].name) = ToLowerCase(planet)}
  IN  IF hits = {} THEN 0
      ELSE CHOOSE i \in hits : \A j \in hits : i <= j

VARIABLES
  initializedRef,   \* initializedRef.current
  mounted,          \* the effect has run and its cleanup has not
  cleanupFn,        \* a cleanup function is registered for the effect
  sceneRef,         \* sceneRef.current is a scene
  domElement,       \* renderer.domElement is a child of the mount element
  resizeListener,   \* handleResize is registered on window
  clickListeners,   \* the click listeners are registered on the menu buttons
  currentLoadId,    \* closure counter of loadPlanet
  loading,          \* value last passed to setLoading
  activePlanet,     \* value last passed to setActivePlanet
  planetRef,        \* planetRef.current (currentPlanet in part_001)
  sceneChildren,    \* planet nodes attached to the scene
  inflight,         \* loads handed to loader.load and not yet resolved
  loadCalls,        \* number of loader.load invocations so far
  resolved,         \* loads whose success or error callback has run
  disposeCalls,     \* per node, number of disposals performed on it
  errorLog,         \* number of console.error calls
  requestCalls,     \* number of loadPlanet calls that found a scene
  lastFile,         \* file of the latest such call, "" before the first
  normalized,       \* nodes whose materials were replaced by standard ones
  released,         \* per node, the resources dispose() was called on
  animating,        \* the requestAnimationFrame loop of animate is running
  rotationY,        \* per node, number of 0.001 increments of rotation.y
  viewport,         \* << width, height >> given to the camera and renderer
  tree,             \* disposal input: the nodes obj.traverse visits, in order
  mapOf,            \* disposal input: the map of each material, 0 for none
  geometryDisposals,\* per geometry, number of dispose() calls on it
  materialDisposals,\* per material, number of dispose() calls on it
  mapDisposals,     \* per texture map, number of dispose() calls on it
  traversed,        \* disposeObject3D has run on tree
  object,           \* fitting input: bounding box, position and scale of a root
  fitted            \* centerAndFit has run on object

vars == << initializedRef, mounted, cleanupFn, sceneRef, domElement,
           resizeListener, clickListeners, currentLoadId, loading,
           activePlanet, planetRef, sceneChildren, inflight, loadCalls,
           resolved, disposeCalls, errorLog, requestCalls, lastFile,
           normalized, released,
           animating, rotationY, viewport,
           tree, mapOf, geometryDisposals, materialDisposals, mapDisposals,
           traversed, object, fitted >>

\* State of the helper runs, untouched by the viewer's handlers.
pureVars == << tree, mapOf, geometryDisposals, materialDisposals,
               mapDisposals, traversed, object, fitted >>

\* What a delivered node owns: the geometry of its mesh, the material the
\* mesh came with, that material's texture map, and the standard material
\* that replaces the material when the node is normalized.
Resources == {"geometry", "material", "map", "standardMaterial"}

\* History of the calls of loadPlanet.
requestVars == << requestCalls, lastFile >>

\* State of the GPU-side resources of the nodes.
resourceVars == << normalized, released >>

\* State of the render loop and of the render surface.
frameVars == << animating, rotationY, viewport >>

lifecycleVars == << initializedRef, mounted, cleanupFn, sceneRef, domElement,
                    resizeListener, clickListeners >>

loadVars == << currentLoadId, loading, planetRef, sceneChildren, inflight,
               loadCalls, resolved, disposeCalls, errorLog >>

TypeOK ==
  /\ initializedRef \in BOOLEAN /\ mounted \in BOOLEAN /\ cleanupFn \in BOOLEAN
  /\ sceneRef \in BOOLEAN /\ domElement \in BOOLEAN
  /\ resizeListener \in BOOLEAN /\ clickListeners \in BOOLEAN
  /\ currentLoadId \in 0..MaxLoads
  /\ loading \in BOOLEAN
  /\ activePlanet \in STRING
  /\ planetRef \in Nodes \cup {NoNode}
  /\ sceneChildren \subseteq Nodes
  /\ \A r \in inflight : r.node \in Nodes /\ r.loadId \in 0..MaxLoads
  /\ loadCalls \in 0..MaxLoads
  /\ \A d \in resolved : d.node \in Nodes /\ d.ok \in BOOLEAN
  /\ disposeCalls \in [Nodes -> Nat]
  /\ errorLog \in Nat

\* Bound on the number of frames that rotate one node.
MaxFrames == 1

\* Sizes of the host container (clientWidth, clientHeight) that are read.
ContainerSizes == { << 800, 600 >>, << 400, 600 >> }

\* Bound on the number of descendants of a disposed root.
MaxDescendants == 2

Geometries == {1, 2}

Materials == {1, 2}

Maps == {1, 2}

\* child.material as disposeObject3D reads it: an array of materials, or a
\* single material held in mats[1]; 0 stands for a missing material.
MaterialSlots ==
  { [isArray |-> FALSE, mats |-> << m >>] : m \in Materials \cup {0} } \cup
  { [isArray |-> TRUE, mats |-> << 1, 2 >>],
    [isArray |-> TRUE, mats |-> << 1, 1 >>] }

\* A node without geometry and material that is not a mesh (a Group).
GroupNode ==
  [isMesh |-> FALSE, geometry |-> 0, material |-> [isArray |-> FALSE, mats |-> << 0 >>]]

MeshNodes ==
  { [isMesh |-> TRUE, geometry |-> g, material |-> m] :
      g \in Geometries \cup {0}, m \in MaterialSlots }

\* The node trees that are disposed: a Group root (gltf.scene) followed by
\* its descendants in the order traverse visits them.
Trees ==
  UNION { { << GroupNode >> \o t : t \in [1..k -> MeshNodes \cup {GroupNode}] } :
          k \in 0..MaxDescendants }

\* Bound on the integer coordinates of the bounding boxes that are fitted.
MaxCoord == 2

Axes == 1..3

\* Exact rationals << numerator, denominator >> with a positive denominator
\* stand for the numbers of the box arithmetic.
Rat(n) == << n, 1 >>

RAdd(a, b) == << a[1] * b[2] + b[1] * a[2], a[2] * b[2] >>

RSub(a, b) == << a[1] * b[2] - b[1] * a[2], a[2] * b[2] >>

RMul(a, b) == << a[1] * b[1], a[2] * b[2] >>

\* a / b for b > 0
RDiv(a, b) == << a[1] * b[2], a[2] * b[1] >>

REq(a, b) == a[1] * b[2] = b[1] * a[2]

RLess(a, b) == a[1] * b[2] < b[1] * a[2]

RMax(a, b) == IF RLess(a, b) THEN b ELSE a

\* A root as the loader delivers it (gltf.scene is a new Group: position 0,
\* scale 1) whose subtree has the axis-aligned box lo..hi in the root's own
\* coordinates; empty is a subtree without geometry.
RootWith(empty, lo, hi) ==
  [empty |-> empty, lo |-> lo, hi |-> hi,
   position |-> [a \in Axes |-> Rat(0)], scale |-> Rat(1)]

NoObject == RootWith(TRUE, [a \in Axes |-> 0], [a \in Axes |-> 0])

\* No helper run is in progress.
PureIdle ==
  /\ object = NoObject
  /\ fitted = FALSE
  /\ tree = << >>
  /\ mapOf = [m \in Materials |-> 0]
  /\ geometryDisposals = [g \in Geometries |-> 0]
  /\ materialDisposals = [m \in Materials |-> 0]
  /\ mapDisposals = [t \in Maps |-> 0]
  /\ traversed = FALSE

\* The viewer after the first render of the component, before its effect
\* runs.
ViewerInit ==
  /\ initializedRef = FALSE
  /\ mounted = FALSE
  /\ cleanupFn = FALSE
  /\ sceneRef = FALSE
  /\ domElement = FALSE
  /\ resizeListener = FALSE
  /\ clickListeners = FALSE
  /\ currentLoadId = 0
  /\ loading = FALSE
  /\ activePlanet = "Earth"
  /\ planetRef = NoNode
  /\ sceneChildren = {}
  /\ inflight = {}
  /\ loadCalls = 0
  /\ resolved = {}
  /\ disposeCalls = [n \in Nodes |-> 0]
  /\ errorLog = 0
  /\ requestCalls = 0
  /\ lastFile = ""
  /\ normalized = {}
  /\ released = [n \in Nodes |-> {}]
  /\ animating = FALSE
  /\ rotationY = [n \in Nodes |-> 0]
  /\ viewport = << 0, 0 >>

\* State after the first render of the component, before its effect runs.
Init == ViewerInit /\ PureIdle

----------------------------------------------------------------------------
(* PlanetViewer.jsx *)

\* disposeObject3D(obj): one more disposal of node obj.
disposeObject3D(calls, obj) == [calls EXCEPT ![obj] = @ + 1]

\* What disposeObject3D(obj) calls dispose() on: the geometry, the material
\* the mesh has now, and the map of that material (the standard material
\* is built with the map of the material it replaces).
Release(rel, obj) ==
  [rel EXCEPT ![obj] = @ \cup
     {"geometry", "map",
      IF obj \in normalized THEN "standardMaterial" ELSE "material"}]

\* The counter declared inside the returned function: every call gets 1.
NextLoadIdReset(id) == 1

\* ++currentLoadId
NextLoadId(id) == id + 1

\* The previous planet is left in the scene.
SceneRemoveNothing(children, obj) == children

\* scene.remove(planetRef.current)
SceneRemove(children, obj) == children \ {obj}

\* planetRef.current is not reset.
KeptPlanetRef == planetRef

\* planetRef.current = null after the previous planet was removed
ClearedPlanetRef == NoNode

\* The stale check is missing.
IsStaleNever(loadId, current) == FALSE

\* loadId !== currentLoadId in the success callback
IsStale(loadId, current) == loadId # current

\* The error callback never clears the flag.
ErrorIsCurrentNever(loadId, current) == FALSE

\* The error callback clears the flag for every load.
ErrorIsCurrentAlways(loadId, current) == TRUE

\* loadId === currentLoadId in the error callback
ErrorIsCurrent(loadId, current) == loadId = current

\* The success callback passes true to setLoading.
LoadingSetTrue == TRUE

\* setLoading(false) is missing from the success callback.
LoadingLeftSet == loading

\* setLoading(false) at the end of the success callback
LoadingAfterSuccess == FALSE

\* What is known when the callback of the in-flight load r runs: the node
\* the load is for, the identifier its closure captured, the value of the
\* counter at that moment, and which callback ran.
Resolution(r, ok) ==
  [node |-> r.node, loadId |-> r.loadId, current |-> currentLoadId, ok |-> ok]

\* The mount effect.  React runs it after the first commit and, with
\* StrictMode, once more after a simulated unmount; the second run returns
\* at the initializedRef guard and registers no cleanup.
useEffect ==
  /\ ~mounted
  /\ mounted' = TRUE
  /\ IF initializedRef
       THEN /\ cleanupFn' = FALSE
            /\ UNCHANGED << initializedRef, sceneRef, domElement,
                            resizeListener, clickListeners, frameVars >>
       ELSE /\ initializedRef' = TRUE
            /\ sceneRef' = TRUE
            /\ \E size \in ContainerSizes : viewport' = size
            /\ domElement' = TRUE
            /\ animating' = TRUE
            /\ resizeListener' = TRUE
            /\ clickListeners' = TRUE
            /\ cleanupFn' = TRUE
            /\ UNCHANGED rotationY
  /\ UNCHANGED << activePlanet, loadVars >>
  /\ UNCHANGED pureVars
  /\ UNCHANGED resourceVars
  /\ UNCHANGED requestVars

\* The cleanup returned by the effect.  removeEventListener("click",
\* () => {}) is given a function that was never registered, so it removes
\* nothing.  mountRef.current may already be null when the cleanup runs.
Cleanup ==
  /\ mounted
  /\ cleanupFn
  /\ mounted' = FALSE
  /\ cleanupFn' = FALSE
  /\ resizeListener' = FALSE
  /\ \E mountRefCurrent \in BOOLEAN :
       domElement' = IF mountRefCurrent THEN FALSE ELSE domElement
  /\ disposeCalls' = IF planetRef # NoNode
                       THEN disposeObject3D(disposeCalls, planetRef)
                       ELSE disposeCalls
  /\ released' = IF planetRef # NoNode THEN Release(released, planetRef)
                  ELSE released
  /\ UNCHANGED normalized
  /\ UNCHANGED << initializedRef, sceneRef, clickListeners, currentLoadId,
                  loading, activePlanet, planetRef, sceneChildren, inflight,
                  loadCalls, resolved, errorLog >>
  /\ UNCHANGED pureVars
  /\ UNCHANGED frameVars
  /\ UNCHANGED requestVars

\* loadPlanet(file) of the closure captured by the effect.
loadPlanet(file) ==
  IF ~sceneRef
    THEN UNCHANGED << loadVars, resourceVars, requestVars >>
    ELSE /\ loadCalls < MaxLoads
         /\ requestCalls' = requestCalls + 1
         /\ lastFile' = file
         /\ loading' = TRUE
         /\ currentLoadId' = NextLoadId(currentLoadId)
         /\ IF planetRef # NoNode
              THEN /\ sceneChildren' = SceneRemove(sceneChildren, planetRef)
                   /\ disposeCalls' = disposeObject3D(disposeCalls, planetRef)
                   /\ released' = Release(released, planetRef)
                   /\ planetRef' = ClearedPlanetRef
              ELSE UNCHANGED << sceneChildren, disposeCalls, released,
                                planetRef >>
         /\ loadCalls' = loadCalls + 1
         /\ inflight' = inflight \cup
              {[node |-> loadCalls + 1, loadId |-> currentLoadId', file |-> file]}
         /\ UNCHANGED << resolved, errorLog, normalized >>

\* Click listener of a menu button whose data-planet attribute is planet.
ClickMenuButton(planet) ==
  /\ clickListeners
  /\ IF planet = ""
       THEN UNCHANGED vars
       ELSE LET match == FindPlanet(planet) IN
            IF match # 0
              THEN /\ activePlanet' = PLANETS[match].name
                   /\ loadPlanet(PLANETS[match].file)
                   /\ UNCHANGED lifecycleVars
              ELSE UNCHANGED vars
  /\ UNCHANGED pureVars
  /\ UNCHANGED frameVars

\* Success callback of loader.load for the in-flight load r.
LoadSuccess(r) ==
  /\ r \in inflight
  /\ inflight' = inflight \ {r}
  /\ resolved' = resolved \cup {Resolution(r, TRUE)}
  /\ IF IsStale(r.loadId, currentLoadId)
       THEN /\ disposeCalls' = disposeObject3D(disposeCalls, r.node)
            /\ released' = Release(released, r.node)
            /\ UNCHANGED << sceneChildren, planetRef, loading, normalized >>
       ELSE /\ normalized' = normalized \cup {r.node}
            /\ sceneChildren' = sceneChildren \cup {r.node}
            /\ planetRef' = r.node
            /\ loading' = LoadingAfterSuccess
            /\ UNCHANGED << disposeCalls, released >>
  /\ UNCHANGED << lifecycleVars, currentLoadId, activePlanet, loadCalls,
                  errorLog >>
  /\ UNCHANGED pureVars
  /\ UNCHANGED frameVars
  /\ UNCHANGED requestVars

\* The error callback of the current load invokes the loader again.
LoadErrorRetries(r) ==
  /\ r \in inflight
  /\ IF ErrorIsCurrent(r.loadId, currentLoadId) /\ loadCalls < MaxLoads
       THEN /\ loadCalls' = loadCalls + 1
            /\ inflight' = (inflight \ {r}) \cup
                 {[node |-> loadCalls + 1, loadId |-> r.loadId, file |-> r.file]}
            /\ UNCHANGED loading
       ELSE /\ inflight' = inflight \ {r}
            /\ loading' = IF ErrorIsCurrent(r.loadId, currentLoadId)
                            THEN FALSE ELSE loading
            /\ UNCHANGED loadCalls
  /\ resolved' = resolved \cup {Resolution(r, FALSE)}
  /\ errorLog' = errorLog + 1
  /\ UNCHANGED << lifecycleVars, currentLoadId, activePlanet, planetRef,
                  sceneChildren, disposeCalls >>
  /\ UNCHANGED << pureVars, frameVars, resourceVars, requestVars >>

\* Error callback of loader.load for the in-flight load r.
LoadError(r) ==
  /\ r \in inflight
  /\ inflight' = inflight \ {r}
  /\ loading' = IF ErrorIsCurrent(r.loadId, currentLoadId) THEN FALSE
                ELSE loading
  /\ resolved' = resolved \cup {Resolution(r, FALSE)}
  /\ errorLog' = errorLog + 1
  /\ UNCHANGED << lifecycleVars, currentLoadId, activePlanet, planetRef,
                  sceneChildren, loadCalls, disposeCalls >>
  /\ UNCHANGED pureVars
  /\ UNCHANGED frameVars
  /\ UNCHANGED resourceVars
  /\ UNCHANGED requestVars

\* The frame callback clears the loading flag.
animateClearsLoading ==
  /\ animating
  /\ loading' = FALSE
  /\ IF planetRef # NoNode
       THEN /\ rotationY[planetRef] < MaxFrames
            /\ rotationY' = [rotationY EXCEPT ![planetRef] = @ + 1]
       ELSE UNCHANGED rotationY
  /\ UNCHANGED << lifecycleVars, activePlanet, currentLoadId, planetRef,
                  sceneChildren, inflight, loadCalls, resolved, disposeCalls,
                  errorLog, animating, viewport, pureVars >>
  /\ UNCHANGED resourceVars
  /\ UNCHANGED requestVars

\* One frame of animate: it schedules itself again, rotates the node
\* planetRef refers to, updates the controls and renders the scene.
animate ==
  /\ animating
  /\ IF planetRef # NoNode
       THEN /\ rotationY[planetRef] < MaxFrames
            /\ rotationY' = [rotationY EXCEPT ![planetRef] = @ + 1]
       ELSE UNCHANGED rotationY
  /\ UNCHANGED << lifecycleVars, activePlanet, loadVars, animating, viewport,
                  pureVars >>
  /\ UNCHANGED resourceVars
  /\ UNCHANGED requestVars

\* The resize listener, run when the container has the given size;
\* mountRef.current is set exactly while the component is mounted.
handleResize(size) ==
  /\ resizeListener
  /\ viewport' = IF ~mounted THEN viewport ELSE size
  /\ UNCHANGED << lifecycleVars, activePlanet, loadVars, animating, rotationY,
                  pureVars >>
  /\ UNCHANGED resourceVars
  /\ UNCHANGED requestVars

Next ==
  \/ useEffect
  \/ Cleanup
  \/ animate
  \/ \E size \in ContainerSizes : handleResize(size)
  \/ \E planet \in DataPlanets : ClickMenuButton(planet)
  \/ \E r \in inflight : LoadSuccess(r)
  \/ \E r \in inflight : LoadError(r)

Spec == Init /\ [][Next]_vars

\* Some in-flight load is resolved by one of its two callbacks.
SomeLoadResolves == \E r \in inflight : LoadSuccess(r) \/ LoadError(r)

\* The viewer when the loader resolves every load it was handed: as long as
\* loads are in flight, one of them eventually resolves.
SpecLive == Init /\ [][Next]_vars /\ WF_vars(SomeLoadResolves)

----------------------------------------------------------------------------
(* part_000: the component variant without a load identifier.  Its loads  *)
(* carry loadId 0, and currentLoadId, loading, activePlanet,               *)
(* initializedRef and clickListeners are not part of its state.  Its frame *)
(* and resize callbacks, which are those of PlanetViewer.jsx, and the      *)
(* history of its requests are not modelled here.                          *)

\* file fields of the catalog entries whose buttons are clicked.
ButtonFiles == {"../models/earth.glb", "../models/mars.glb"}

\* loadPlanet(file) of part_000, acting on the scene whose planet nodes are
\* children.
loadPlanet000(children, file) ==
  /\ loadCalls < MaxLoads
  /\ IF planetRef # NoNode
       THEN /\ sceneChildren' = SceneRemove(children, planetRef)
            /\ disposeCalls' = disposeObject3D(disposeCalls, planetRef)
            /\ released' = Release(released, planetRef)
            /\ planetRef' = NoNode
       ELSE /\ sceneChildren' = children
            /\ UNCHANGED << disposeCalls, released, planetRef >>
  /\ loadCalls' = loadCalls + 1
  /\ inflight' = inflight \cup
       {[node |-> loadCalls + 1, loadId |-> 0, file |-> "/models/" \o file]}
  /\ UNCHANGED << resolved, errorLog, normalized >>

\* The mount effect of part_000, run once for the component instance: it
\* builds the scene and loads the default planet.
useEffect000 ==
  /\ ~sceneRef
  /\ sceneRef' = TRUE
  /\ mounted' = TRUE
  /\ cleanupFn' = TRUE
  /\ domElement' = TRUE
  /\ resizeListener' = TRUE
  /\ loadPlanet000({}, "earth.glb")
  /\ UNCHANGED << initializedRef, clickListeners, currentLoadId, loading,
                  activePlanet >>
  /\ UNCHANGED pureVars
  /\ UNCHANGED frameVars
  /\ UNCHANGED requestVars

\* onClick of a rendered planet button: handlePlanetClick(p.file).
handlePlanetClick000(file) ==
  /\ mounted
  /\ loadPlanet000(sceneChildren, file)
  /\ UNCHANGED << lifecycleVars, currentLoadId, loading, activePlanet >>
  /\ UNCHANGED pureVars
  /\ UNCHANGED frameVars
  /\ UNCHANGED requestVars

\* Success callback of part_000: the node is attached whatever was
\* requested since.
LoadSuccess000(r) ==
  /\ r \in inflight
  /\ inflight' = inflight \ {r}
  /\ resolved' = resolved \cup {Resolution(r, TRUE)}
  /\ sceneChildren' = sceneChildren \cup {r.node}
  /\ planetRef' = r.node
  /\ UNCHANGED << lifecycleVars, currentLoadId, loading, activePlanet,
                  loadCalls, disposeCalls, errorLog >>
  /\ UNCHANGED pureVars
  /\ UNCHANGED frameVars
  /\ UNCHANGED resourceVars
  /\ UNCHANGED requestVars

\* Error callback of part_000.
LoadError000(r) ==
  /\ r \in inflight
  /\ inflight' = inflight \ {r}
  /\ resolved' = resolved \cup {Resolution(r, FALSE)}
  /\ errorLog' = errorLog + 1
  /\ UNCHANGED << lifecycleVars, currentLoadId, loading, activePlanet,
                  planetRef, sceneChildren, loadCalls, disposeCalls >>
  /\ UNCHANGED pureVars
  /\ UNCHANGED frameVars
  /\ UNCHANGED resourceVars
  /\ UNCHANGED requestVars

\* Cleanup of the effect of part_000.
Cleanup000 ==
  /\ mounted
  /\ cleanupFn
  /\ mounted' = FALSE
  /\ cleanupFn' = FALSE
  /\ resizeListener' = FALSE
  /\ \E mountRefCurrent \in BOOLEAN :
       domElement' = IF mountRefCurrent THEN FALSE ELSE domElement
  /\ disposeCalls' = IF planetRef # NoNode
                       THEN disposeObject3D(disposeCalls, planetRef)
                       ELSE disposeCalls
  /\ released' = IF planetRef # NoNode THEN Release(released, planetRef)
                  ELSE released
  /\ UNCHANGED normalized
  /\ UNCHANGED << initializedRef, sceneRef, clickListeners, currentLoadId,
                  loading, activePlanet, planetRef, sceneChildren, inflight,
                  loadCalls, resolved, errorLog >>
  /\ UNCHANGED pureVars
  /\ UNCHANGED frameVars
  /\ UNCHANGED requestVars

Next000 ==
  \/ useEffect000
  \/ Cleanup000
  \/ \E file \in ButtonFiles : handlePlanetClick000(file)
  \/ \E r \in inflight : LoadSuccess000(r)
  \/ \E r \in inflight : LoadError000(r)

SpecPart000 == Init /\ [][Next000]_vars

----------------------------------------------------------------------------
(* part_001: the vanilla script.  planetRef stands for its module variable *)
(* currentPlanet.  The script has no teardown and no error callback.       *)

\* Paths passed to window.loadPlanet.
Paths == {"models/earth.glb", "models/mars.glb"}

\* State after the module body has run init() and animate().
Init001 ==
  /\ PureIdle
  /\ initializedRef = FALSE
  /\ mounted = TRUE
  /\ cleanupFn = FALSE
  /\ sceneRef = TRUE
  /\ domElement = TRUE
  /\ resizeListener = TRUE
  /\ clickListeners = FALSE
  /\ currentLoadId = 0
  /\ loading = FALSE
  /\ activePlanet = "Earth"
  /\ planetRef = NoNode
  /\ sceneChildren = {}
  /\ inflight = {}
  /\ loadCalls = 0
  /\ resolved = {}
  /\ disposeCalls = [n \in Nodes |-> 0]
  /\ errorLog = 0
  /\ requestCalls = 0
  /\ lastFile = ""
  /\ normalized = {}
  /\ released = [n \in Nodes |-> {}]
  /\ animating = TRUE
  /\ rotationY = [n \in Nodes |-> 0]
  /\ viewport \in ContainerSizes

\* The inline traverse of window.loadPlanet that disposes the geometry and
\* the materials of currentPlanet.
disposeTraverse001(calls, obj) == [calls EXCEPT ![obj] = @ + 1]

\* window.loadPlanet(path)
loadPlanet001(path) ==
  /\ loadCalls < MaxLoads
  /\ IF planetRef # NoNode
       THEN /\ sceneChildren' = SceneRemove(sceneChildren, planetRef)
            /\ disposeCalls' = disposeTraverse001(disposeCalls, planetRef)
            /\ released' = [released EXCEPT
                              ![planetRef] = @ \cup {"geometry", "material"}]
            /\ planetRef' = NoNode
       ELSE UNCHANGED << sceneChildren, disposeCalls, released, planetRef >>
  /\ UNCHANGED normalized
  /\ loadCalls' = loadCalls + 1
  /\ inflight' = inflight \cup
       {[node |-> loadCalls + 1, loadId |-> 0, file |-> path]}
  /\ UNCHANGED << lifecycleVars, currentLoadId, loading, activePlanet,
                  resolved, errorLog >>
  /\ UNCHANGED pureVars
  /\ UNCHANGED frameVars
  /\ UNCHANGED requestVars

\* Success callback of part_001.
LoadSuccess001(r) ==
  /\ r \in inflight
  /\ inflight' = inflight \ {r}
  /\ resolved' = resolved \cup {Resolution(r, TRUE)}
  /\ planetRef' = r.node
  /\ sceneChildren' = sceneChildren \cup {r.node}
  /\ UNCHANGED << lifecycleVars, currentLoadId, loading, activePlanet,
                  loadCalls, disposeCalls, errorLog >>
  /\ UNCHANGED pureVars
  /\ UNCHANGED frameVars
  /\ UNCHANGED resourceVars
  /\ UNCHANGED requestVars

\* A load of part_001 fails: loader.load was given no error callback, so
\* no code of the script runs.
LoadError001(r) ==
  /\ r \in inflight
  /\ inflight' = inflight \ {r}
  /\ resolved' = resolved \cup {Resolution(r, FALSE)}
  /\ UNCHANGED << lifecycleVars, currentLoadId, loading, activePlanet,
                  planetRef, sceneChildren, loadCalls, disposeCalls,
                  errorLog >>
  /\ UNCHANGED pureVars
  /\ UNCHANGED frameVars
  /\ UNCHANGED resourceVars
  /\ UNCHANGED requestVars

Next001 ==
  \/ \E path \in Paths : loadPlanet001(path)
  \/ \E r \in inflight : LoadSuccess001(r)
  \/ \E r \in inflight : LoadError001(r)

SpecPart001 == Init001 /\ [][Next001]_vars

----------------------------------------------------------------------------
(* disposeObject3D on a node tree (PlanetViewer.jsx and part_000) *)

\* One more dispose() call on resource k; k = 0 is a missing resource.
Dispose(counts, k) == [counts EXCEPT ![k] = @ + 1]

\* mats.forEach: skip a missing material, dispose its map if it has one,
\* then dispose the material.  st = [mat |-> counts, map |-> counts].
RECURSIVE DisposeMats(_, _)
DisposeMats(st, mats) ==
  IF mats = << >> THEN st
  ELSE LET m == Head(mats)
           next == IF m = 0 THEN st
                   ELSE [mat |-> Dispose(st.mat, m),
                         map |-> IF mapOf[m] # 0
                                   THEN Dispose(st.map, mapOf[m])
                                   ELSE st.map]
       IN  DisposeMats(next, Tail(mats))

\* The traverse callback on one node.
\* st = [geo |-> counts, mat |-> counts, map |-> counts].
DisposeChild(st, child) ==
  IF child.isMesh
    THEN LET geo == IF child.geometry # 0 THEN Dispose(st.geo, child.geometry)
                    ELSE st.geo
             mm  == DisposeMats([mat |-> st.mat, map |-> st.map],
                                child.material.mats)
         IN  [geo |-> geo, mat |-> mm.mat, map |-> mm.map]
    ELSE st

\* obj.traverse(callback): the callback runs on every node of the tree once.
RECURSIVE Traverse(_, _)
Traverse(st, nodes) ==
  IF nodes = << >> THEN st
  ELSE Traverse(DisposeChild(st, Head(nodes)), Tail(nodes))

\* A tree and the maps of its materials are handed to disposeObject3D.
InitDispose ==
  /\ ViewerInit
  /\ object = NoObject
  /\ fitted = FALSE
  /\ tree \in Trees
  /\ mapOf \in [Materials -> Maps \cup {0}]
  /\ geometryDisposals = [g \in Geometries |-> 0]
  /\ materialDisposals = [m \in Materials |-> 0]
  /\ mapDisposals = [t \in Maps |-> 0]
  /\ traversed = FALSE

\* One call disposeObject3D(obj) on the root of tree.
DisposeTree ==
  /\ ~traversed
  /\ LET st == Traverse([geo |-> geometryDisposals, mat |-> materialDisposals,
                         map |-> mapDisposals], tree)
     IN  /\ geometryDisposals' = st.geo
         /\ materialDisposals' = st.mat
         /\ mapDisposals' = st.map
  /\ traversed' = TRUE
  /\ UNCHANGED << tree, mapOf, object, fitted, lifecycleVars, activePlanet,
                  loadVars >>
  /\ UNCHANGED frameVars
  /\ UNCHANGED resourceVars
  /\ UNCHANGED requestVars

NextDispose == DisposeTree

SpecDispose == InitDispose /\ [][NextDispose]_vars

\* Resources reachable from the meshes of tree.
ReachableGeometries ==
  { tree[i].geometry : i \in {j \in 1..Len(tree) : tree[j].isMesh} } \ {0}

ReachableMaterials ==
  UNION { { tree[i].material.mats[k] : k \in 1..Len(tree[i].material.mats) } :
          i \in {j \in 1..Len(tree) : tree[j].isMesh} } \ {0}

ReachableMaps == { mapOf[m] : m \in ReachableMaterials } \ {0}

\* C11: one disposeObject3D call releases every geometry, every distinct
\* material and every distinct map reachable from the meshes of the tree
\* exactly once, shared resources included.
C11_DisposeExactlyOnce ==
  traversed =>
    /\ \A g \in ReachableGeometries : geometryDisposals[g] = 1
    /\ \A m \in ReachableMaterials : materialDisposals[m] = 1
    /\ \A t \in ReachableMaps : mapDisposals[t] = 1

----------------------------------------------------------------------------
(* centerAndFit on a loaded root (PlanetViewer.jsx and part_000) *)

\* new THREE.Box3().setFromObject(object): the world box of the subtree,
\* every point p of the root's coordinates lying at position + scale * p.
\* An empty box is reported by empty.
SetFromObject(obj) ==
  [empty |-> obj.empty,
   min |-> [a \in Axes |-> RAdd(obj.position[a], RMul(obj.scale, Rat(obj.lo[a])))],
   max |-> [a \in Axes |-> RAdd(obj.position[a], RMul(obj.scale, Rat(obj.hi[a])))]]

\* box.getSize: the zero vector for an empty box, else max - min.
GetSize(box) ==
  [a \in Axes |-> IF box.empty THEN Rat(0) ELSE RSub(box.max[a], box.min[a])]

\* box.getCenter: the zero vector for an empty box, else (min + max) / 2.
GetCenter(box) ==
  [a \in Axes |-> IF box.empty THEN Rat(0)
                  ELSE RMul(RAdd(box.min[a], box.max[a]), << 1, 2 >>)]

\* Math.max(size.x, size.y, size.z)
MaxDim(size) == RMax(size[1], RMax(size[2], size[3]))

\* The quotient is taken the wrong way round.
FitScaleInverted(maxDim) ==
  IF RLess(Rat(0), maxDim) THEN RDiv(maxDim, << 3, 2 >>) ELSE Rat(1)

\* maxDim > 0 ? 1.5 / maxDim : 1
FitScale(maxDim) ==
  IF RLess(Rat(0), maxDim) THEN RDiv(<< 3, 2 >>, maxDim) ELSE Rat(1)

\* centerAndFit(object)
CenterAndFitted(obj) ==
  LET box    == SetFromObject(obj)
      size   == GetSize(box)
      center == GetCenter(box)
  IN  [obj EXCEPT !.position = [a \in Axes |-> RSub(obj.position[a], center[a])],
                  !.scale = FitScale(MaxDim(size))]

Coords == (0 - MaxCoord + 1)..MaxCoord

\* A delivered root is handed to centerAndFit.
InitFit ==
  /\ ViewerInit
  /\ tree = << >>
  /\ mapOf = [m \in Materials |-> 0]
  /\ geometryDisposals = [g \in Geometries |-> 0]
  /\ materialDisposals = [m \in Materials |-> 0]
  /\ mapDisposals = [t \in Maps |-> 0]
  /\ traversed = FALSE
  /\ fitted = FALSE
  /\ \/ object = NoObject
     \/ \E lo, hi \in [Axes -> Coords] :
          /\ \A a \in Axes : lo[a] <= hi[a]
          /\ object = RootWith(FALSE, lo, hi)

\* One call centerAndFit(object).
CenterAndFit ==
  /\ ~fitted
  /\ object' = CenterAndFitted(object)
  /\ fitted' = TRUE
  /\ UNCHANGED << tree, mapOf, geometryDisposals, materialDisposals,
                  mapDisposals, traversed, lifecycleVars, activePlanet,
                  loadVars >>
  /\ UNCHANGED frameVars
  /\ UNCHANGED resourceVars
  /\ UNCHANGED requestVars

NextFit == CenterAndFit

SpecFit == InitFit /\ [][NextFit]_vars

\* Largest dimension of the box of the root's subtree in the root's own
\* coordinates, which is its world box before centerAndFit.
PreScaleMaxDim ==
  IF object.empty THEN 0
  ELSE LET m(a, b) == IF a < b THEN b ELSE a
       IN  m(object.hi[1] - object.lo[1],
             m(object.hi[2] - object.lo[2], object.hi[3] - object.lo[3]))

\* C12: after centerAndFit the center of the model's bounding box is at the
\* origin, whatever its offset from the root's origin and whatever its size.
C12_CenteredAfterFit ==
  fitted =>
    LET center == GetCenter(SetFromObject(object))
    IN  \A a \in Axes : REq(center[a], Rat(0))

\* C13: after centerAndFit the largest dimension of the bounding box of a
\* model with pre-scale largest dimension d > 0 is 1.5; for d = 0 the scale
\* of the root is 1.
C13_FitsTargetSize ==
  fitted =>
    IF PreScaleMaxDim > 0
      THEN REq(MaxDim(GetSize(SetFromObject(object))), << 3, 2 >>)
      ELSE REq(object.scale, Rat(1))

\* A box of largest dimension 3 whose center is off the root's origin was
\* fitted.
C13_Witness ==
  /\ fitted
  /\ PreScaleMaxDim = 3
  /\ object.lo[1] = 0 - 1 /\ object.hi[1] = 2 /\ object.lo[2] = 1

----------------------------------------------------------------------------
(* Properties of the variants *)

\* C3: in part_000 and in part_001, when a later loadPlanet call was issued before an
\* earlier call's load resolved, the earlier call's model is not attached:
\* an attached node is the node of the latest call, and the scene never
\* holds two planet nodes.
C3_VariantsCancelStale ==
  /\ Cardinality(sceneChildren) <= 1
  /\ \A n \in sceneChildren : n = loadCalls

\* C7: from the return of loadPlanet until its own load succeeds no model
\* is displayed: while the load of the latest call is in flight, planetRef
\* (currentPlanet) is none and no planet node is attached.
C7_EmptyUntilOwnLoad ==
  (\E r \in inflight : r.node = loadCalls) =>
     (planetRef = NoNode /\ sceneChildren = {})

----------------------------------------------------------------------------
(* Properties of PlanetViewer.jsx *)

\* The effect has run and so has its cleanup, and the effect has not been
\* run again since.
TornDown == initializedRef /\ ~mounted

\* The in-flight load r is resolved by the step.
Resolves(r) == r \in inflight /\ inflight' = inflight \ {r}

\* C1: a loaded node is attached to the scene only if the identifier of its
\* request equalled the counter when its load resolved; every node delivered
\* for a superseded request has been disposed and is not attached.
C1_OnlyCurrentAttached ==
  /\ \A n \in sceneChildren :
       \E d \in resolved : d.node = n /\ d.ok /\ d.loadId = d.current
  /\ \A d \in resolved :
       (d.ok /\ d.loadId # d.current) =>
          /\ d.node \notin sceneChildren
          /\ planetRef # d.node
          /\ disposeCalls[d.node] >= 1

\* Earth then Mars: Earth's load resolved stale, Mars's load is attached.
C1_Witness ==
  /\ \E d \in resolved : d.ok /\ d.loadId # d.current
  /\ \E n \in sceneChildren : \E d \in resolved : d.node = n /\ d.loadId = 2

\* C2: at most one planet node is attached to the scene, and an attached
\* node is the one planetRef refers to.
C2_AtMostOneAttached ==
  /\ Cardinality(sceneChildren) <= 1
  /\ \A n \in sceneChildren : planetRef = n

\* A second model is attached after the first one was displayed.
C2_Witness ==
  /\ sceneChildren = {2}
  /\ \E d \in resolved : d.node = 1 /\ d.ok /\ d.loadId = d.current

\* C5: the loading flag is true exactly when a request has been issued and
\* the request holding the current identifier has not resolved.
C5_LoadingIffCurrentPending ==
  loading <=> (loadCalls > 0 /\ \E r \in inflight : r.loadId = currentLoadId)

\* A superseded load and a failure have resolved and the current request is
\* still pending.
C5_Witness ==
  /\ loading
  /\ \E d \in resolved : d.loadId # d.current
  /\ \E d \in resolved : ~d.ok

\* C6: a request gets an identifier greater than every identifier assigned
\* before it (all of which are at most the counter), so the identifiers of
\* the loads in flight are pairwise distinct and exactly one of them can be
\* the current one.
C6_IdsStrictlyIncrease ==
  /\ [](/\ \A r \in inflight : r.loadId >= 1 /\ r.loadId <= currentLoadId
        /\ \A d \in resolved : d.loadId <= currentLoadId
        /\ \A r, q \in inflight : r.loadId = q.loadId => r = q)
  /\ [][/\ currentLoadId' >= currentLoadId
        /\ \A r \in inflight' \ inflight :
             /\ r.loadId > currentLoadId
             /\ r.loadId = currentLoadId'
             /\ \A q \in inflight : r.loadId > q.loadId]_vars

\* Three requests are in flight at once.
C6_Witness == Cardinality(inflight) = 3 /\ currentLoadId = 3

\* C8: when the load of the current request fails, in the resulting state
\* the loading flag is false, no planet node is attached and planetRef is
\* none.
C8_CurrentFailure ==
  [][\A r \in inflight :
       (Resolves(r) /\ errorLog' # errorLog /\ r.loadId = currentLoadId) =>
          (~loading' /\ sceneChildren' = {} /\ planetRef' = NoNode)]_vars

\* Sun was displayed, then Venus was requested and its load failed.
C8_Witness ==
  /\ \E d \in resolved :
       d.node = 1 /\ d.ok /\ d.loadId = d.current /\ disposeCalls[1] = 1
  /\ \E d \in resolved : d.node = 2 /\ ~d.ok /\ d.loadId = d.current
  /\ ~loading /\ planetRef = NoNode /\ sceneChildren = {}

\* C9 as stated: a stale resolution changes neither the loading flag, nor
\* planetRef, nor the attached nodes, nor the counter, and does nothing
\* but dispose the stale node when it is a success.
C9_StaleOnlyDisposes ==
  [][\A r \in inflight :
       (Resolves(r) /\ r.loadId # currentLoadId) =>
          /\ UNCHANGED << loading, planetRef, sceneChildren, currentLoadId >>
          /\ UNCHANGED << lifecycleVars, activePlanet, loadCalls, errorLog >>
          /\ \/ UNCHANGED disposeCalls
             \/ /\ Resolution(r, TRUE) \in resolved'
                /\ disposeCalls' = disposeObject3D(disposeCalls, r.node)]_vars

\* C9 amended: a stale resolution changes neither the loading flag, nor
\* planetRef, nor the attached nodes, nor the counter; a stale success
\* disposes the stale node once and logs nothing, a stale failure disposes
\* nothing and logs the error with console.error.
C9_StaleFrame ==
  [][\A r \in inflight :
       (Resolves(r) /\ r.loadId # currentLoadId) =>
          /\ UNCHANGED << loading, planetRef, sceneChildren, currentLoadId >>
          /\ UNCHANGED << lifecycleVars, activePlanet, loadCalls >>
          /\ \/ /\ Resolution(r, TRUE) \in resolved'
                /\ disposeCalls' = disposeObject3D(disposeCalls, r.node)
                /\ errorLog' = errorLog
             \/ /\ Resolution(r, FALSE) \in resolved'
                /\ disposeCalls' = disposeCalls
                /\ errorLog' = errorLog + 1]_vars

\* A stale success and a stale failure have happened while the current
\* request is pending.
C9_Witness ==
  /\ \E d \in resolved : d.ok /\ d.loadId # d.current
  /\ \E d \in resolved : ~d.ok /\ d.loadId # d.current
  /\ loading /\ planetRef = NoNode

\* C4: after teardown the attached nodes and planetRef do not change, and
\* a load that resolves successfully after teardown is disposed and not
\* attached.
C4_NoMutationAfterTeardown ==
  [][TornDown =>
       /\ UNCHANGED << sceneChildren, planetRef >>
       /\ \A r \in inflight :
            (Resolves(r) /\ Resolution(r, TRUE) \in resolved') =>
               /\ disposeCalls'[r.node] = disposeCalls[r.node] + 1
               /\ r.node \notin sceneChildren']_vars

\* C10: after teardown the resize listener and the click listeners are
\* removed, no click can start a load, and the model displayed at teardown
\* has been disposed.
C10_TeardownReleases ==
  TornDown =>
    /\ ~resizeListener
    /\ ~clickListeners
    /\ ~ENABLED (\E planet \in DataPlanets :
                   ClickMenuButton(planet) /\ loadCalls' # loadCalls)
    /\ planetRef # NoNode => disposeCalls[planetRef] >= 1

\* C14: a step of the frame callback or of the resize callback changes
\* neither the current identifier, nor the loading flag, nor planetRef, nor
\* the nodes attached to the scene.
C14_FrameAndResizeKeepLoadState ==
  [][(animate \/ \E size \in ContainerSizes : handleResize(size)) =>
       UNCHANGED << currentLoadId, loading, planetRef, sceneChildren >>]_vars

\* The displayed model has been rotated by a frame and the surface has the
\* second container size, while a newer request is pending behind it.
C14_Witness ==
  /\ planetRef # NoNode
  /\ rotationY[planetRef] >= 1
  /\ viewport = << 400, 600 >>
  /\ resolved # {}

\* C15: once a node has been disposed, the material and the texture map it
\* owned when the loader delivered it have been released, also when the
\* material was replaced by a standard material before the node was attached.
C15_OwnedResourcesReleased ==
  \A n \in Nodes :
    disposeCalls[n] >= 1 => {"material", "map"} \subseteq released[n]

\* C16: the number of loader invocations equals the number of loadPlanet
\* calls made with an initialised scene; no resolution of a load invokes
\* the loader, and a click on a catalog button starts a load also while
\* another load is pending.
C16_NoRetryNoDebounce ==
  /\ [](/\ loadCalls = requestCalls
        /\ (clickListeners /\ loadCalls < MaxLoads) =>
              ENABLED (ClickMenuButton("earth") /\ loadCalls' = loadCalls + 1))
  /\ [][\A r \in inflight : Resolves(r) => loadCalls' = loadCalls]_vars

\* A load failed while current, nothing was retried, and two clicks made
\* while a load was pending were both served.
C16_Witness ==
  /\ \E d \in resolved : ~d.ok /\ d.loadId = d.current
  /\ inflight = {} /\ ~loading
  /\ loadCalls = 3 /\ Cardinality(resolved) = 3
  /\ \E d \in resolved : d.loadId # d.current

\* C17: once a load has been requested, the active-planet label names the
\* catalog entry whose file was passed to the latest loadPlanet call; a
\* click whose data-planet value matches no catalog entry changes nothing.
C17_LabelMatchesLastRequest ==
  /\ requestCalls > 0 =>
       \E i \in 1..Len(PLANETS) :
          PLANETS[i].name = activePlanet /\ PLANETS[i].file = lastFile
  /\ \A planet \in DataPlanets :
       (\A i \in 1..Len(PLANETS) :
           ToLowerCase(PLANETS[i].name) # ToLowerCase(planet)) =>
          ~ENABLED (ClickMenuButton(planet) /\ vars' # vars)

\* Earth was requested and then the button with data-planet "MARS".
C17_Witness ==
  /\ activePlanet = "Mars"
  /\ lastFile = "/models/mars.glb"
  /\ requestCalls = 2
  /\ \E r \in inflight : r.node = 1 /\ r.file = "/models/earth.glb"

\* C18: while the loading flag is true no model is displayed: planetRef is
\* none and no planet node is attached to the scene.
C18_LoadingMeansEmpty ==
  loading => (planetRef = NoNode /\ sceneChildren = {})

\* A model was displayed, a new request removed it, and a stale load has
\* resolved while the flag is still true.
C18_Witness ==
  /\ loading
  /\ \E d \in resolved : d.ok /\ d.loadId = d.current /\ disposeCalls[d.node] >= 1
  /\ \E d \in resolved : d.ok /\ d.loadId # d.current

\* C19: the node planetRef refers to, which animate rotates and renders,
\* and every planet node attached to the scene have not been disposed.
C19_NoDisposedNodeUsed ==
  /\ planetRef # NoNode => disposeCalls[planetRef] = 0
  /\ \A n \in sceneChildren : disposeCalls[n] = 0

\* C20: when every in-flight load eventually resolves, the loading flag
\* eventually is false and stays false.  Requests stop in every behaviour,
\* because at most MaxLoads of them are made.
C20_LoadingEventuallyFalse == <>[](~loading)

\* Every load has resolved, among them a superseded one and a failed one,
\* and the flag is false.
C20_Witness ==
  /\ ~loading
  /\ inflight = {}
  /\ loadCalls >= 2
  /\ \E d \in resolved : d.loadId # d.current
  /\ \E d \in resolved : ~d.ok /\ d.loadId = d.current

====
